---- MODULE Spec2Model ----
(***************************************************************************)
(* Model of the recipes API (package main): the in-memory collection       *)
(* `recipes` and the five gin handlers that read and write it.             *)
(*                                                                         *)
(* Strings that the code only compares for equality (ids, names) are TLA+  *)
(* strings.  Tag strings are compared with strings.EqualFold, so they are  *)
(* sequences of ASCII codes: <<65, 98>> is "Ab", <<>> is "".               *)
(* time.Time values are natural numbers; 0 is the zero time.               *)
(***************************************************************************)
EXTENDS Integers, Sequences, FiniteSets, TLC

(***************************************************************************)
(* Bounds of the model.                                                    *)
(***************************************************************************)
MaxLen == 3          \* creates are accepted while len(recipes) < MaxLen
MaxCreates == 3      \* number of ids xid.New() hands out in one run
MaxClock == 2        \* the last instant time.Now() reaches
MaxSeed == 2         \* length of the longest recipes.json that is loaded

(***************************************************************************)
(* HTTP status codes (net/http).                                           *)
(***************************************************************************)
StatusOK == 200
StatusBadRequest == 400
StatusNotFound == 404

VARIABLES
    recipes,     \* var recipes []Recipe
    objectID,    \* the counter inside xid: how many ids were generated
    clock,       \* the last value time.Now() returned
    req,         \* the request the last handler served
    resp,        \* what that handler wrote with c.JSON
    created,     \* history: the records the creates returned, in order, while
                 \* the run started empty and nothing else changed the collection
    onlyCreates, \* history: the run started empty and only creates changed it
    listed,      \* history: the last list response, while nothing changed since
    threads      \* the handlers in flight, when requests overlap

vars == <<recipes, objectID, clock, req, resp, created, onlyCreates, listed, threads>>
history == <<created, onlyCreates, listed>>

(***************************************************************************)
(* type Recipe struct                                                      *)
(***************************************************************************)
Recipe(id, name, tags, ingredients, instructions, publishedAt) ==
    [ID |-> id, Name |-> name, Tags |-> tags, Ingredients |-> ingredients,
     Instructions |-> instructions, PublishedAt |-> publishedAt]

\* A request body that ShouldBindJSON rejects.
Malformed == [malformed |-> TRUE]

\* The body of a request whose handler reads none.
NoBody == [none |-> TRUE]

(***************************************************************************)
(* Inputs of the model.                                                    *)
(***************************************************************************)
SeedIds == {"A", "B"}
ParamIds == SeedIds \cup {"Z", "x1"}
TagA == <<65>>
Taga == <<97>>
TagEmpty == <<>>
QueryTags == {TagEmpty, Taga}

\* The request bodies that bind: two contents, each under either seed id.
Pizza(id) == Recipe(id, "Pizza", <<TagA>>, <<"flour">>, <<"bake">>, 0)
Tacos(id) == Recipe(id, "Tacos", <<>>, <<>>, <<>>, 1)
Bodies == { Pizza(id) : id \in SeedIds } \cup { Tacos(id) : id \in SeedIds }

\* The sequences of length n over S.
RECURSIVE SeqsOfLen(_, _)
SeqsOfLen(S, n) ==
    IF n = 0 THEN {<<>>}
    ELSE { Append(s, r) : s \in SeqsOfLen(S, n - 1), r \in S }

HasDistinctIds(s) ==
    \A i, j \in 1..Len(s) : s[i].ID = s[j].ID => i = j

\* What init() can load from recipes.json: nothing (file absent or malformed)
\* or an array of recipes.
SeedCollections ==
    { s \in UNION { SeqsOfLen(Bodies, n) : n \in 0..MaxSeed } :
        HasDistinctIds(s) }

\* Faulty variant: the generator's counter never advances.
XidStringStuck(n) == "x1"

(***************************************************************************)
(* xid.New().String(): the n-th id of the run.                             *)
(***************************************************************************)
XidString(n) == "x" \o ToString(n)

(***************************************************************************)
(* The id scan of UpdateRecipeHandler and DeleteRecipeHandler:             *)
(*   index := -1                                                           *)
(*   for i := 0; i < len(recipes); i++ {                                   *)
(*       if recipes[i].ID == id { index = i } }                            *)
(* Indices are Go's (0-based); rs[i + 1] is recipes[i].                    *)
(***************************************************************************)
\* if recipes[i].ID == id { index = i }
ScanStep(rs, id, i, index) == IF rs[i + 1].ID = id THEN i ELSE index

\* Faulty variant: the scan stops at the first match.
RECURSIVE ScanFromFirst(_, _, _, _)
ScanFromFirst(rs, id, i, index) ==
    IF i < Len(rs)
    THEN IF rs[i + 1].ID = id THEN i ELSE ScanFromFirst(rs, id, i + 1, index)
    ELSE index

RECURSIVE ScanFrom(_, _, _, _)
ScanFrom(rs, id, i, index) ==
    IF i < Len(rs)
    THEN ScanFrom(rs, id, i + 1, ScanStep(rs, id, i, index))
    ELSE index

FindIndex(rs, id) == ScanFrom(rs, id, 0, -1)

\* Faulty variant: recipes[:index], the tail is dropped with the element.
SpliceOutTruncates(rs, index) == SubSeq(rs, 1, index)

\* append(recipes[:index], recipes[index+1:]...)
SpliceOut(rs, index) ==
    SubSeq(rs, 1, index) \o SubSeq(rs, index + 2, Len(rs))

(***************************************************************************)
(* strings.EqualFold on ASCII strings.                                     *)
(***************************************************************************)
Min(a, b) == IF a < b THEN a ELSE b
Max(a, b) == IF a < b THEN b ELSE a

FoldEqualByte(sr, tr) ==
    \/ tr = sr
    \/ LET lo == Min(sr, tr)
           hi == Max(sr, tr)
       IN  65 <= lo /\ lo <= 90 /\ hi = lo + 97 - 65

\* Faulty variant: strings compared as they are.
EqualFoldExact(s, t) == s = t

\* Faulty variant: the lengths are not compared after the common prefix.
EqualFoldPrefix(s, t) ==
    \A i \in 1..Min(Len(s), Len(t)) : FoldEqualByte(s[i], t[i])

EqualFold(s, t) ==
    /\ \A i \in 1..Min(Len(s), Len(t)) : FoldEqualByte(s[i], t[i])
    /\ Len(s) = Len(t)

\* for _, t := range recipes[i].Tags { if strings.EqualFold(t, tag) { found = true } }
RECURSIVE TagFound(_, _, _, _)
TagFound(tags, tag, k, found) ==
    IF k <= Len(tags)
    THEN TagFound(tags, tag, k + 1, IF EqualFold(tags[k], tag) THEN TRUE ELSE found)
    ELSE found

\* The body of the outer loop of SearchRecipesHandler.
SearchStep(rs, tag, i, listOfRecipes) ==
    IF TagFound(rs[i + 1].Tags, tag, 1, FALSE)
    THEN Append(listOfRecipes, rs[i + 1])
    ELSE listOfRecipes

\* The outer loop of SearchRecipesHandler.
RECURSIVE SearchFrom(_, _, _, _)
SearchFrom(rs, tag, i, listOfRecipes) ==
    IF i < Len(rs)
    THEN SearchFrom(rs, tag, i + 1, SearchStep(rs, tag, i, listOfRecipes))
    ELSE listOfRecipes

(***************************************************************************)
(* Initial state: after init().                                            *)
(***************************************************************************)
NoRequest == [op |-> "none", id |-> "", body |-> NoBody, tag |-> TagEmpty]
NoResponse == [status |-> 0, body |-> <<>>]
NotListed == [valid |-> FALSE, body |-> <<>>]

\* The goroutines gin serves requests on.
Threads == {1, 2}

\* A handler that is not running: its last request and response, no locals.
Idle(r, w, n) ==
    [pc |-> "idle", req |-> r, resp |-> w, served |-> n, recipe |-> NoBody,
     i |-> 0, index |-> -1, held |-> <<>>]

Started(seed) ==
    /\ recipes = seed
    /\ objectID = 0
    /\ clock = 1
    /\ req = NoRequest
    /\ resp = NoResponse
    /\ created = <<>>
    /\ onlyCreates = (Len(seed) = 0)
    /\ listed = NotListed
    /\ threads = [t \in Threads |-> Idle(NoRequest, NoResponse, 0)]

Init == \E seed \in SeedCollections : Started(seed)

(***************************************************************************)
(* The handlers, each run from its first line to its last with no other    *)
(* request in between.                                                     *)
(***************************************************************************)
Request(op, id, body, tag) == [op |-> op, id |-> id, body |-> body, tag |-> tag]
Response(status, body) == [status |-> status, body |-> body]
ErrorBody(msg) == [error |-> msg]
BindError == Response(StatusBadRequest, ErrorBody("bind"))
NotFound == Response(StatusNotFound, ErrorBody("Recipe not found"))
Deleted == Response(StatusOK, [message |-> "Recipe has been deleted"])

\* The collection changed: the history of an unchanged collection ends.
Changed == created' = <<>> /\ onlyCreates' = FALSE /\ listed' = NotListed

\* Faulty variant: the id of the request body is kept.
StampedKeepsID(body, n, now) == [body EXCEPT !.PublishedAt = now]

\* recipe.ID = xid.New().String(); recipe.PublishedAt = time.Now()
Stamped(body, n, now) == [body EXCEPT !.ID = XidString(n), !.PublishedAt = now]

\* recipes = append(recipes, recipe)
AppendRecipe(rs, recipe) == Append(rs, recipe)

NewRecipeHandler(body) ==
    /\ req' = Request("create", "", body, TagEmpty)
    /\ IF body = Malformed
       THEN /\ resp' = BindError
            /\ UNCHANGED <<recipes, objectID, clock, history, threads>>
       ELSE /\ Len(recipes) < MaxLen
            /\ objectID < MaxCreates
            /\ \E now \in clock..Min(clock + 1, MaxClock) :
                 LET recipe == Stamped(body, objectID + 1, now)
                 IN  /\ objectID' = objectID + 1
                     /\ clock' = now
                     /\ recipes' = AppendRecipe(recipes, recipe)
                     /\ resp' = Response(StatusOK, recipe)
                     /\ created' = IF onlyCreates THEN Append(created, recipe)
                                                  ELSE created
            /\ listed' = NotListed
            /\ UNCHANGED <<onlyCreates, threads>>

\* Faulty variant: a page of two recipes is returned.
ListBodyFirstPage(rs) == SubSeq(rs, 1, Min(Len(rs), 2))

\* c.JSON(http.StatusOK, recipes)
ListBody(rs) == rs

ListRecipesHandler ==
    /\ req' = Request("list", "", NoBody, TagEmpty)
    /\ resp' = Response(StatusOK, ListBody(recipes))
    /\ listed' = [valid |-> TRUE, body |-> resp'.body]
    /\ UNCHANGED <<recipes, objectID, clock, created, onlyCreates, threads>>

\* Faulty variant: the stored record keeps the id it had.
StoreAtKeepingId(rs, index, recipe) ==
    [rs EXCEPT ![index + 1] = [recipe EXCEPT !.ID = rs[index + 1].ID]]

\* recipes[index] = recipe
StoreAt(rs, index, recipe) == [rs EXCEPT ![index + 1] = recipe]

UpdateRecipeHandler(id, body) ==
    /\ req' = Request("update", id, body, TagEmpty)
    /\ UNCHANGED <<objectID, clock, threads>>
    /\ IF body = Malformed
       THEN /\ resp' = BindError
            /\ UNCHANGED <<recipes, history>>
       ELSE LET index == FindIndex(recipes, id)
            IN  IF index = -1
                THEN /\ resp' = NotFound
                     /\ UNCHANGED <<recipes, history>>
                ELSE /\ recipes' = StoreAt(recipes, index, body)
                     /\ resp' = Response(StatusOK, body)
                     /\ Changed

DeleteRecipeHandler(id) ==
    /\ req' = Request("delete", id, NoBody, TagEmpty)
    /\ UNCHANGED <<objectID, clock, threads>>
    /\ LET index == FindIndex(recipes, id)
       IN  IF index = -1
           THEN /\ resp' = NotFound
                /\ UNCHANGED <<recipes, history>>
           ELSE /\ recipes' = SpliceOut(recipes, index)
                /\ resp' = Deleted
                /\ Changed

SearchRecipesHandler(tag) ==
    /\ req' = Request("search", "", NoBody, tag)
    /\ resp' = Response(StatusOK, SearchFrom(recipes, tag, 0, <<>>))
    /\ UNCHANGED <<recipes, objectID, clock, history, threads>>

Next ==
    \/ \E body \in Bodies \cup {Malformed} : NewRecipeHandler(body)
    \/ ListRecipesHandler
    \/ \E id \in ParamIds, body \in Bodies \cup {Malformed} : UpdateRecipeHandler(id, body)
    \/ \E id \in ParamIds : DeleteRecipeHandler(id)
    \/ \E tag \in QueryTags : SearchRecipesHandler(tag)

Spec == Init /\ [][Next]_vars

(***************************************************************************)
(* Tag search on its own: every small collection, every small tag.         *)
(***************************************************************************)
MaxSearchLen == 3    \* length of the longest collection searched

\* The tag strings recipes carry: "", "A", "aB", "b".
StoredTags == { <<>>, <<65>>, <<97, 66>>, <<98>> }

\* The tag lists recipes carry: none, one tag, two tags in either order.
TagLists ==
    { <<>> } \cup { <<t>> : t \in StoredTags }
    \cup { <<<<65>>, <<97, 66>>>>, <<<<97, 66>>, <<65>>>>, <<<<98>>, <<>>>> }

\* The tags searched for: "", "a", "A", "b", "ab", "AB", "Ab", "aa".
SearchTags ==
    { <<>>, <<97>>, <<65>>, <<98>>, <<97, 98>>, <<65, 66>>, <<65, 98>>, <<97, 97>> }

\* The i-th recipe of a searched collection: its id is its position.
Tagged(i, tags) == Recipe(XidString(i), "Soup", tags, <<"water">>, <<"boil">>, 1)

RECURSIVE TaggedCollections(_)
TaggedCollections(n) ==
    IF n = 0 THEN {<<>>}
    ELSE LET shorter == TaggedCollections(n - 1)
         IN  shorter \cup { Append(s, Tagged(Len(s) + 1, tags)) :
                              s \in { c \in shorter : Len(c) = n - 1 },
                              tags \in TagLists }

InitSearch == \E seed \in TaggedCollections(MaxSearchLen) : Started(seed)

NextSearch == \E tag \in SearchTags : SearchRecipesHandler(tag)

SpecSearch == InitSearch /\ [][NextSearch]_vars

(***************************************************************************)
(* Overlapping requests.  gin runs every handler on its own goroutine and  *)
(* the handlers take no lock, so they interleave at each read and write of *)
(* the package variable `recipes`.  A step below is one such access with   *)
(* the local computation around it.  The slice is taken as a value: these  *)
(* are the interleavings in which every read sees the last value written,  *)
(* some of the behaviours the unsynchronised program has.                  *)
(***************************************************************************)
MaxRequests == 2     \* requests one goroutine serves in a run
StatusInternalServerError == 500    \* gin's Recovery answers a panic

ConcSeeds == { <<>>, <<Pizza("A")>>, <<Pizza("A"), Tacos("B")>> }
ConcBodies == { Tacos("A") }
ConcTags == { Taga }

InitConc == \E seed \in ConcSeeds : Started(seed)

sequential == <<req, resp, created, onlyCreates, listed>>

Running(t, pc) == threads[t].pc = pc

\* The handler of t goes on: its locals change as given.
Goes(t, pc, i, index, held) ==
    threads' = [threads EXCEPT ![t].pc = pc, ![t].i = i, ![t].index = index,
                               ![t].held = held]

\* The handler of t returns after c.JSON(status, body).
Returns(t, w) ==
    threads' = [threads EXCEPT ![t] = Idle(threads[t].req, w, threads[t].served)]

\* An index out of range: the handler panics and Recovery answers.
Panics(t) == Returns(t, Response(StatusInternalServerError, ErrorBody("panic")))

\* A request reaches an idle goroutine: the handler binds its input and sets
\* up its locals.
Receive(t, r) ==
    /\ Running(t, "idle")
    /\ threads[t].served < MaxRequests
    /\ LET accepted == [Idle(r, NoResponse, threads[t].served + 1)
                          EXCEPT !.recipe = r.body]
       IN  CASE r.body = Malformed ->
                  /\ threads' = [threads EXCEPT ![t] =
                       Idle(r, BindError, threads[t].served + 1)]
                  /\ UNCHANGED <<objectID, clock>>
            [] r.op = "create" /\ r.body # Malformed ->
                  /\ Len(recipes) < MaxLen
                  /\ objectID < MaxCreates
                  /\ \E now \in clock..Min(clock + 1, MaxClock) :
                       /\ objectID' = objectID + 1
                       /\ clock' = now
                       /\ threads' = [threads EXCEPT ![t] =
                            [accepted EXCEPT !.pc = "append",
                                             !.recipe = Stamped(r.body, objectID + 1, now)]]
            [] r.op \in {"update", "delete"} /\ r.body # Malformed ->
                  /\ threads' = [threads EXCEPT ![t] = [accepted EXCEPT !.pc = "scan"]]
                  /\ UNCHANGED <<objectID, clock>>
            [] r.op = "search" ->
                  /\ threads' = [threads EXCEPT ![t] = [accepted EXCEPT !.pc = "search"]]
                  /\ UNCHANGED <<objectID, clock>>
            [] r.op = "list" ->
                  /\ threads' = [threads EXCEPT ![t] =
                       Idle(r, Response(StatusOK, ListBody(recipes)), threads[t].served + 1)]
                  /\ UNCHANGED <<objectID, clock>>
    /\ UNCHANGED <<recipes, sequential>>

\* append(recipes, recipe): the slice is read and the new one built.
AppendLoad(t) ==
    /\ Running(t, "append")
    /\ Goes(t, "store", 0, -1, AppendRecipe(recipes, threads[t].recipe))
    /\ UNCHANGED <<recipes, objectID, clock, sequential>>

\* recipes = ...: the slice built by append is written back, by
\* NewRecipeHandler or DeleteRecipeHandler.
Store(t) ==
    /\ Running(t, "store")
    /\ recipes' = threads[t].held
    /\ Returns(t, IF threads[t].req.op = "create"
                  THEN Response(StatusOK, threads[t].recipe)
                  ELSE Deleted)
    /\ UNCHANGED <<objectID, clock, sequential>>

\* i < len(recipes), and what follows the loop when it is false.
ScanTest(t) ==
    /\ Running(t, "scan")
    /\ LET me == threads[t]
       IN  IF me.i < Len(recipes)
           THEN Goes(t, "scan_read", me.i, me.index, <<>>)
           ELSE IF me.index = -1
                THEN Returns(t, NotFound)
                ELSE Goes(t, IF me.req.op = "update" THEN "write" ELSE "splice",
                          me.i, me.index, <<>>)
    /\ UNCHANGED <<recipes, objectID, clock, sequential>>

\* if recipes[i].ID == id { index = i }; i++
ScanRead(t) ==
    /\ Running(t, "scan_read")
    /\ LET me == threads[t]
       IN  IF me.i < Len(recipes)
           THEN Goes(t, "scan", me.i + 1, ScanStep(recipes, me.req.id, me.i, me.index), <<>>)
           ELSE Panics(t)
    /\ UNCHANGED <<recipes, objectID, clock, sequential>>

\* recipes[index] = recipe
UpdateWrite(t) ==
    /\ Running(t, "write")
    /\ LET me == threads[t]
       IN  IF me.index < Len(recipes)
           THEN /\ recipes' = StoreAt(recipes, me.index, me.recipe)
                /\ Returns(t, Response(StatusOK, me.recipe))
           ELSE /\ Panics(t)
                /\ UNCHANGED recipes
    /\ UNCHANGED <<objectID, clock, sequential>>

\* append(recipes[:index], recipes[index+1:]...)
SpliceLoad(t) ==
    /\ Running(t, "splice")
    /\ LET me == threads[t]
       IN  IF me.index + 1 <= Len(recipes)
           THEN Goes(t, "store", 0, -1, SpliceOut(recipes, me.index))
           ELSE Panics(t)
    /\ UNCHANGED <<recipes, objectID, clock, sequential>>

\* i < len(recipes) in SearchRecipesHandler, and the response after the loop.
SearchTest(t) ==
    /\ Running(t, "search")
    /\ LET me == threads[t]
       IN  IF me.i < Len(recipes)
           THEN Goes(t, "search_read", me.i, -1, me.held)
           ELSE Returns(t, Response(StatusOK, me.held))
    /\ UNCHANGED <<recipes, objectID, clock, sequential>>

\* The body of the search loop on recipes[i]; i++
SearchRead(t) ==
    /\ Running(t, "search_read")
    /\ LET me == threads[t]
       IN  IF me.i < Len(recipes)
           THEN Goes(t, "search", me.i + 1, -1, SearchStep(recipes, me.req.tag, me.i, me.held))
           ELSE Panics(t)
    /\ UNCHANGED <<recipes, objectID, clock, sequential>>

ConcRequests ==
    { Request("create", "", body, TagEmpty) : body \in ConcBodies \cup {Malformed} }
    \cup { Request("list", "", NoBody, TagEmpty) }
    \cup { Request("update", id, body, TagEmpty) : id \in SeedIds, body \in ConcBodies }
    \cup { Request("delete", id, NoBody, TagEmpty) : id \in SeedIds }
    \cup { Request("search", "", NoBody, tag) : tag \in ConcTags }

NextConc ==
    \E t \in Threads :
        \/ \E r \in ConcRequests : Receive(t, r)
        \/ AppendLoad(t)
        \/ Store(t)
        \/ ScanTest(t)
        \/ ScanRead(t)
        \/ UpdateWrite(t)
        \/ SpliceLoad(t)
        \/ SearchTest(t)
        \/ SearchRead(t)

SpecConc == InitConc /\ [][NextConc]_vars

(***************************************************************************)
(* Vocabulary of the properties.                                           *)
(***************************************************************************)
Positions(rs) == 1..Len(rs)
HasId(rs, id) == \E k \in Positions(rs) : rs[k].ID = id
Matches(rs, id) == { k \in Positions(rs) : rs[k].ID = id }
LastMatch(rs, id) == CHOOSE k \in Matches(rs, id) : \A j \in Matches(rs, id) : j <= k

\* rs without its k-th element, the others in their order.
Without(rs, k) ==
    [j \in 1..(Len(rs) - 1) |-> IF j < k THEN rs[j] ELSE rs[j + 1]]

\* rs and rs2 differ at most at position k.
SameExceptAt(rs, rs2, k) ==
    /\ Len(rs2) = Len(rs)
    /\ \A j \in Positions(rs) : j # k => rs2[j] = rs[j]

Issued(n) == { XidString(k) : k \in 1..n }

ToLower(s) ==
    [i \in 1..Len(s) |-> IF 65 <= s[i] /\ s[i] <= 90 THEN s[i] + 32 ELSE s[i]]
SameIgnoringCase(s, t) == ToLower(s) = ToLower(t)
HasTag(r, tag) == \E k \in 1..Len(r.Tags) : SameIgnoringCase(r.Tags[k], tag)
HasEmptyTag(r) == \E k \in 1..Len(r.Tags) : r.Tags[k] = TagEmpty

Served(op) == req'.op = op
Bound == req'.body # Malformed

(***************************************************************************)
(* C1.  delete(id): when some element has the id, exactly one element with *)
(* that id is removed, the collection is one shorter and the others keep   *)
(* their values and order; when none has it, 404 is answered and the       *)
(* collection is as it was.                                                *)
(***************************************************************************)
DeleteRemovesExactlyOne ==
    [][Served("delete") =>
        IF HasId(recipes, req'.id)
        THEN /\ resp' = Deleted
             /\ Len(recipes') = Len(recipes) - 1
             /\ \E k \in Matches(recipes, req'.id) : recipes' = Without(recipes, k)
        ELSE /\ resp'.status = StatusNotFound
             /\ recipes' = recipes]_vars

DeleteWitness ==
    /\ req.op = "delete"
    /\ resp = Deleted
    /\ Len(recipes) = 2
    /\ objectID = 2

(***************************************************************************)
(* C2.  update(id, payload): when some element has the id, one position    *)
(* holding that id is overwritten with the payload as supplied (its own id *)
(* and publishedAt included), the payload is returned, and the length and  *)
(* every other position are unchanged; when none has it, 404 is answered   *)
(* and the collection is as it was.                                        *)
(***************************************************************************)
UpdateOverwritesOne ==
    [][Served("update") /\ Bound =>
        IF HasId(recipes, req'.id)
        THEN /\ resp' = Response(StatusOK, req'.body)
             /\ \E k \in Matches(recipes, req'.id) :
                    /\ recipes'[k] = req'.body
                    /\ SameExceptAt(recipes, recipes', k)
        ELSE /\ resp'.status = StatusNotFound
             /\ recipes' = recipes]_vars

\* An update has stored a payload whose id is not the one requested and whose
\* publishedAt is the payload's.
UpdateWitness ==
    /\ req.op = "update"
    /\ resp.status = StatusOK
    /\ req.body.ID # req.id
    /\ \E k \in Positions(recipes) : recipes[k] = req.body /\ recipes[k].PublishedAt = 0

(***************************************************************************)
(* C3.  create(input): the payload's id and publishedAt are ignored; the   *)
(* stored record has a fresh non-empty id, different from every id         *)
(* generated earlier in the run, and the time of the call; it is the last  *)
(* element, the earlier elements are unchanged, and it is what is returned.*)
(***************************************************************************)
CreateAppendsFresh ==
    [][Served("create") /\ Bound =>
        LET stored == recipes'[Len(recipes')]
        IN  /\ resp' = Response(StatusOK, stored)
            /\ Len(recipes') = Len(recipes) + 1
            /\ SubSeq(recipes', 1, Len(recipes)) = recipes
            /\ stored.ID # ""
            /\ stored.ID \notin Issued(objectID)
            /\ stored.ID \in Issued(objectID')
            /\ stored.PublishedAt = clock'
            /\ stored = [req'.body EXCEPT !.ID = stored.ID,
                                          !.PublishedAt = stored.PublishedAt]]_vars

\* The third create of a run has answered; its payload carried the id of a
\* record of the collection and a publishedAt other than the time of the call.
CreateWitness ==
    /\ req.op = "create"
    /\ resp.status = StatusOK
    /\ objectID = 3
    /\ HasId(recipes, req.body.ID)
    /\ req.body.PublishedAt # resp.body.PublishedAt

(***************************************************************************)
(* C4.  searchByTag(tag): the result is the subsequence of the collection  *)
(* made of the recipes with at least one tag equal to the given tag        *)
(* ignoring letter case; the collection is not modified.                   *)
(***************************************************************************)
SearchSelectsMatching ==
    [][Served("search") =>
        /\ resp' = Response(StatusOK,
                            SelectSeq(recipes, LAMBDA r : HasTag(r, req'.tag)))
        /\ recipes' = recipes]_vars

\* A search has returned the second recipe only, matched by its second tag,
\* which differs from the query in case.
SearchWitness ==
    /\ req.op = "search"
    /\ Len(recipes) = 2
    /\ resp.body = <<recipes[2]>>
    /\ Len(recipes[2].Tags) = 2
    /\ recipes[2].Tags[1] # req.tag
    /\ recipes[2].Tags[2] # req.tag
    /\ ~SameIgnoringCase(recipes[2].Tags[1], req.tag)

(***************************************************************************)
(* C6.  As claimed: from a collection with pairwise distinct ids, every    *)
(* reachable collection has at most one element per id.                    *)
(***************************************************************************)
IdsStayDistinct == HasDistinctIds(recipes)

(***************************************************************************)
(* C6, amended.  A collection with pairwise distinct ids keeps them        *)
(* distinct under create, delete, list, search and every update whose      *)
(* payload carries the id that was requested.                              *)
(***************************************************************************)
KeepsId == Served("update") /\ Bound => req'.body.ID = req'.id

IdsStayDistinctUnlessRenamed ==
    [][HasDistinctIds(recipes) /\ KeepsId => HasDistinctIds(recipes')]_vars

\* A full collection with distinct ids, holding seeded and created records,
\* after an update that kept the id.
DistinctWitness ==
    /\ req.op = "update"
    /\ resp.status = StatusOK
    /\ req.body.ID = req.id
    /\ Len(recipes) = 3
    /\ objectID >= 1
    /\ HasDistinctIds(recipes)

(***************************************************************************)
(* C7.  As claimed: a search with the empty tag returns no recipe.         *)
(***************************************************************************)
EmptyTagFindsNothing ==
    req.op = "search" /\ req.tag = TagEmpty => resp.body = <<>>

(***************************************************************************)
(* C7, amended.  A search with the empty tag returns the recipes that have *)
(* an empty string among their tags, in collection order, and so nothing   *)
(* when no recipe has one.                                                 *)
(***************************************************************************)
EmptyTagFindsEmptyTags ==
    req.op = "search" /\ req.tag = TagEmpty =>
        /\ resp.body = SelectSeq(recipes, HasEmptyTag)
        /\ (\A k \in Positions(recipes) : ~HasEmptyTag(recipes[k])) => resp.body = <<>>

\* An empty-tag search has returned the second of two recipes, the one with
\* an empty string among its two tags, and left out the first, which has two
\* tags but no empty one.
EmptyTagWitness ==
    /\ req.op = "search"
    /\ req.tag = TagEmpty
    /\ Len(recipes) = 2
    /\ Len(recipes[1].Tags) = 2
    /\ ~HasEmptyTag(recipes[1])
    /\ HasEmptyTag(recipes[2])
    /\ resp.body = <<recipes[2]>>

(***************************************************************************)
(* C8.  list() returns the whole collection in its order and changes       *)
(* nothing; in a run that started empty and only created, it returns the   *)
(* created records in creation order; with no change since the last list   *)
(* it returns what that list returned.                                     *)
(***************************************************************************)
ListReturnsAll ==
    [][Served("list") =>
        /\ resp' = Response(StatusOK, recipes)
        /\ recipes' = recipes
        /\ (onlyCreates => resp'.body = created)
        /\ (listed.valid => resp'.body = listed.body)]_vars

\* A list after three creates on an empty collection.
ListWitness ==
    /\ req.op = "list"
    /\ onlyCreates
    /\ Len(created) = 3
    /\ resp.body = created

(***************************************************************************)
(* C9.  When several elements share the requested id, update and delete    *)
(* act on the last of them and leave the earlier ones untouched.           *)
(***************************************************************************)
Shared(rs, id) == Cardinality(Matches(rs, id)) >= 2

LastMatchWins ==
    [][/\ Shared(recipes, req'.id)
       /\ (Served("delete") \/ (Served("update") /\ Bound))
       => LET k == LastMatch(recipes, req'.id)
          IN  /\ Served("delete") => recipes' = Without(recipes, k)
              /\ Served("update") => /\ recipes'[k] = req'.body
                                     /\ SameExceptAt(recipes, recipes', k)]_vars

\* A delete has removed the last of two elements that shared its id: the
\* earlier one is still there, followed by another record.
LastMatchWitness ==
    /\ req.op = "delete"
    /\ resp = Deleted
    /\ Len(recipes) = 2
    /\ recipes[1].ID = req.id
    /\ recipes[2].ID # req.id

(***************************************************************************)
(* C5.  As claimed: overlapping handlers take effect one at a time, so     *)
(* once two overlapping creates have both returned, both new records are   *)
(* in the collection.  No request of these runs names a created id, so no  *)
(* serial order removes or overwrites a created record.                    *)
(***************************************************************************)
Returned(t, op) ==
    /\ threads[t].pc = "idle"
    /\ threads[t].req.op = op
    /\ threads[t].resp.status = StatusOK

InCollection(r) == \E k \in Positions(recipes) : recipes[k] = r

BothCreatesKept ==
    \A t, u \in Threads :
        t # u /\ Returned(t, "create") /\ Returned(u, "create")
        => InCollection(threads[t].resp.body) /\ InCollection(threads[u].resp.body)

(***************************************************************************)
(* C10.  As claimed: when update writes recipes[index] or delete splices   *)
(* at index, the index found by the scan is within the collection and the  *)
(* element there has the requested id.                                     *)
(***************************************************************************)
IndexStillValid ==
    \A t \in Threads :
        threads[t].pc \in {"write", "splice"}
        => /\ threads[t].index < Len(recipes)
           /\ recipes[threads[t].index + 1].ID = threads[t].req.id

====
